---- MODULE Spec2Model ----
(***************************************************************************)
(* Model of the lilac allocator (src/src/lilac/allocator.rs, types.rs):    *)
(* one growable byte arena, a per-process ledger of refcounted ranges and  *)
(* a free list with first-fit allocation and coalescing on free.           *)
(*                                                                         *)
(* Ranges are Rust Range<u32> values used as CLOSED intervals: a block of  *)
(* n bytes at s is stored as s..(s+n-1).  A MemRange is modelled as        *)
(* [rc, start, end] where rc names the Arc<AtomicU32> it points to; the    *)
(* counters themselves live in the variable refcount.                      *)
(***************************************************************************)
EXTENDS Integers, Sequences, FiniteSets, TLC

(* ------------------------------ bounds --------------------------------- *)

\* number of process identifiers the callers use: Process(0) .. Process(MaxProc - 1)
MaxProc == 2

\* largest size the free-running callers pass to alloc
MaxSize == 2

\* The free-running callers stop before the arena grows beyond MaxHeap bytes.
\* An allocator that keeps its books right then never holds more than MaxHeap
\* blocks or free entries, nor a block that ends at or beyond offset MaxHeap;
\* the free-running callers stop before the allocator holds one of these
\* (Bounded).  The scripted callers have no such bound.
MaxHeap == 3

\* largest block size of the scripted callers' scenarios
MaxUnit == 4

\* largest number of one-byte blocks the scripted callers lay out
MaxBlocks == 5

\* number of one-byte blocks of the scripted callers that free in any order,
\* and the largest number of them they free
RunBlocks == 7
MaxFrees == 5

Procs == 0 .. (MaxProc - 1)
Sizes == 1 .. MaxSize
Addrs == 0 .. (MaxHeap - 1)

(* ------------------------------ state ---------------------------------- *)

VARIABLES
    heap,       \* Allocator.heap: Vec<u8>, as a sequence of bytes (0 or 1)
    allocated,  \* Allocator.allocated: HashMap<Process, Vec<MemRange>>
    refcount,   \* the AtomicU32 counters the MemRanges point to, by Arc identity
    free,       \* Allocator.free: Vec<(u32, Range<u32>)>
    ret,        \* the last call made on the allocator and what it returned
    script,     \* the calls a scripted caller is going to make (<<>>: free-running)
    pc          \* the number of calls the scripted caller has made

vars == <<heap, allocated, refcount, free, ret, script, pc>>

\* The allocator as one value, so that the methods are functions of it.
State == [heap |-> heap, allocated |-> allocated, refcount |-> refcount, free |-> free]

(* --------------------------- Vec helpers ------------------------------- *)

\* Vec::swap_remove(i): the last element takes the place of element i.
swap_remove(s, i) ==
    LET n == Len(s)
    IN  IF i = n THEN SubSeq(s, 1, n - 1)
        ELSE [k \in 1 .. (n - 1) |-> IF k = i THEN s[n] ELSE s[k]]

\* Vec::remove(i): the elements after i shift left.
remove(s, i) == SubSeq(s, 1, i - 1) \o SubSeq(s, i + 1, Len(s))

\* Iterator::find over an enumerated Vec: the first of the indices I (those
\* whose element satisfies the closure), 0 for None.
find(I) == IF I = {} THEN 0 ELSE CHOOSE i \in I : \A j \in I : i <= j

\* Vec::dedup: consecutive equal elements collapse to one.
RECURSIVE dedup(_)
dedup(s) ==
    IF Len(s) <= 1 THEN s
    ELSE LET r == dedup(Tail(s))
         IN  IF s[1] = r[1] THEN r ELSE <<s[1]>> \o r

\* free_inner without the sort before the merge check (the free vec as pushed)
not_sorted(s) == {s}

\* sort_unstable_by(|a, b| a.1.start.cmp(&b.1.start)): every ordering of the
\* entries that is ascending by start; entries with equal starts may come out
\* in any order.
RECURSIVE sort_unstable_by_start(_)
sort_unstable_by_start(s) ==
    IF s = <<>> THEN {<<>>}
    ELSE LET least == {i \in 1 .. Len(s) : \A j \in 1 .. Len(s) : s[i].start <= s[j].start}
         IN  UNION {{<<s[i]>> \o t : t \in sort_unstable_by_start(remove(s, i))} : i \in least}

\* Range<u32>::len(): end - start, 0 for an empty range.
range_len(start, end) == IF end > start THEN end - start ELSE 0

\* MemRange::new(refcount, range)
MemRange(rc, start, end) == [rc |-> rc, start |-> start, end |-> end]

\* a free-list entry (capacity, range)
FreeEntry(cap, start, end) == [cap |-> cap, start |-> start, end |-> end]

\* Arc::new(AtomicU32::new(1)): a counter no MemRange points to yet.
NewArc(st) == CHOOSE id \in 1 .. (Cardinality(DOMAIN st.refcount) + 1) : id \notin DOMAIN st.refcount

\* The counters some MemRange of some ledger still points to: an Arc is
\* dropped with its last MemRange.
LiveArcs(alloc_map) ==
    UNION {{alloc_map[p][i].rc : i \in 1 .. Len(alloc_map[p])} : p \in DOMAIN alloc_map}

DropArcs(rcs, alloc_map) == [id \in DOMAIN rcs \cap LiveArcs(alloc_map) |-> rcs[id]]

\* what a call returns: the new allocator, the result and the value in it
Outcome(st, res, val) == [st |-> st, res |-> res, val |-> val]

\* u32::MAX, the value 0 - 1 wraps to in a release build (a debug build panics).
\* TLC's integers end at 2^31 - 1, which stands for it here: like u32::MAX it
\* is above every offset the arena reaches, and the one addition made to it
\* (end + 1 in alloc_free) is written out as the wrap to 0.
U32Max == 2147483647

(* ---------------------------- the methods ------------------------------ *)
(* Each method is a function from the allocator and its arguments to the   *)
(* SET of outcomes the call can have (more than one only where the result  *)
(* depends on the build profile or on the order an unstable sort leaves).  *)
(* The result "Panic" is a Rust panic; st is then the allocator as the     *)
(* panic left it.                                                          *)

\* Allocator::new
new == [heap |-> <<>>, allocated |-> <<>>, refcount |-> <<>>, free |-> <<>>]

\* Allocator::register_process
register_process(st, p) ==
    IF p \in DOMAIN st.allocated
    THEN {Outcome(st, "AlreadyRegistered", <<>>)}
    ELSE {Outcome([st EXCEPT !.allocated = (p :> <<>>) @@ @], "Ok", <<>>)}

\* entry.push(MemRange::new(Arc::new(AtomicU32::new(1)), range))
push_new_block(st, p, start, end) ==
    LET id == NewArc(st)
    IN  [st EXCEPT !.allocated[p] = Append(@, MemRange(id, start, end)),
                   !.refcount = (id :> 1) @@ @]

\* Allocator::alloc_new
alloc_new(st, p, size) ==
    LET last_elem == Len(st.heap)
        grown == [st EXCEPT !.heap = @ \o [k \in 1 .. size |-> 0]]
        new_last_elem == Len(grown.heap)
    IN  IF new_last_elem - 1 < 0
        THEN {Outcome(grown, "Panic", <<>>),
              Outcome(push_new_block(grown, p, last_elem, U32Max), "Ok",
                      <<last_elem, U32Max>>)}
        ELSE {Outcome(push_new_block(grown, p, last_elem, new_last_elem - 1), "Ok",
                      <<last_elem, new_last_elem - 1>>)}

\* Allocator::alloc_free from "let new_cap" on, with start and end computed
alloc_free_rest(st, p, size, fr, start, end, start_of_rest) ==
    LET new_cap == fr.cap - size
        rest == IF new_cap # 0
                THEN [st EXCEPT !.free = Append(@, FreeEntry(new_cap, start_of_rest, fr.end))]
                ELSE st
    IN  Outcome(push_new_block(rest, p, start, end), "Ok", <<start, end>>)

\* Allocator::alloc_free: st is the allocator with the chosen entry fr removed
alloc_free(st, p, size, fr) ==
    LET start == fr.start
        end == fr.start + size - 1
    IN  IF end < 0
        THEN {Outcome(st, "Panic", <<>>),
              alloc_free_rest(st, p, size, fr, start, U32Max, 0)}
        ELSE {alloc_free_rest(st, p, size, fr, start, end, end + 1)}

\* the free entry of the least sufficient capacity, the first of them in list order
best_fit(st, size) ==
    find({i \in 1 .. Len(st.free) :
            /\ st.free[i].cap >= size
            /\ \A j \in 1 .. Len(st.free) :
                  st.free[j].cap >= size => st.free[i].cap <= st.free[j].cap})

\* has_free: the first free entry, in list order, with capacity >= size
has_free(st, size) == find({i \in 1 .. Len(st.free) : st.free[i].cap >= size})

\* Allocator::alloc
alloc(st, p, size) ==
    IF p \notin DOMAIN st.allocated
    THEN {Outcome(st, "NoSuchProcess", <<>>)}
    ELSE LET i == has_free(st, size)
         IN  IF i # 0
             THEN alloc_free([st EXCEPT !.free = swap_remove(@, i)], p, size, st.free[i])
             ELSE alloc_new(st, p, size)

\* the loop of free_inner that collects the indices of connecting entries:
\* entry i connects when the previous entry's start + capacity is its start
RECURSIVE connecting(_, _)
connecting(fl, i) ==
    IF i > Len(fl) THEN <<>>
    ELSE LET old_last == IF i = 1 THEN 0 ELSE fl[i - 1].start + fl[i - 1].cap
         IN  (IF old_last > 0 /\ old_last = fl[i].start THEN <<i - 1, i>> ELSE <<>>)
             \o connecting(fl, i + 1)

\* the cap of a merged entry without the + 1 of a closed range
cap_exclusive(start, end) == end

\* the cap of a merged entry as free_inner computes it
merged_cap(start, end) == end + 1

\* free_inner from the sorted free vec on: merge the connecting entries
merge(st, fl, blocklen) ==
    LET indices == dedup(connecting(fl, 1))
    IN  IF indices # <<>>
        THEN LET start == fl[indices[1]].start
                 end == fl[indices[Len(indices)]].end
                 cap == merged_cap(start, end)
                 kept == SubSeq(fl, 1, indices[1] - 1)
                         \o SubSeq(fl, indices[1] + Len(indices), Len(fl))
             IN  Outcome([st EXCEPT !.free = Append(kept, FreeEntry(cap, start, end))],
                         "FreeMerge", <<cap>>)
        ELSE Outcome([st EXCEPT !.free = fl], "Free", <<blocklen>>)

\* the zeroize loop over the half-open start..end, which leaves the last byte
zeroize_half_open(h, start, end) ==
    [k \in 1 .. Len(h) |-> IF start + 1 <= k /\ k <= end THEN 0 ELSE h[k]]

\* the zeroize loop of free_inner: heap[i] = 0 for i in start..=end
zeroize_heap(h, start, end) ==
    [k \in 1 .. Len(h) |-> IF start + 1 <= k /\ k <= end + 1 THEN 0 ELSE h[k]]

\* Allocator::free_inner
free_inner(st, p, start_idx, zeroize) ==
    IF p \notin DOMAIN st.allocated
    THEN {Outcome(st, "NoSuchProcess", <<>>)}
    ELSE LET block_idx == find({i \in 1 .. Len(st.allocated[p]) :
                                  st.allocated[p][i].start = start_idx})
         IN  IF block_idx = 0
             THEN {Outcome(st, "BlockNotFound", <<>>)}
             ELSE LET block == st.allocated[p][block_idx]
                      count == st.refcount[block.rc] - 1
                      led == [st.allocated EXCEPT ![p] = swap_remove(@, block_idx)]
                      held == [st EXCEPT !.allocated = led,
                                         !.refcount = [@ EXCEPT ![block.rc] = count]]
                      gone == [held EXCEPT !.refcount = DropArcs(@, led)]
                      zeroed == IF zeroize
                                THEN [gone EXCEPT !.heap = zeroize_heap(@, block.start, block.end)]
                                ELSE gone
                      blocklen == range_len(block.start, block.end) + 1
                      pushed == Append(zeroed.free, FreeEntry(blocklen, block.start, block.end))
                 IN  IF count # 0
                     THEN {Outcome([held EXCEPT !.refcount = DropArcs(@, led)],
                                   "RefcountDecreased", <<>>)}
                     ELSE IF zeroize /\ block.end >= Len(st.heap)
                     THEN {Outcome(zeroed, "Panic", <<>>)}
                     ELSE {merge(zeroed, fl, blocklen) : fl \in sort_unstable_by_start(pushed)}

\* the slice &self.heap[range.start..range.end + 1]: a panic when it is out of bounds
heap_slice(st, start, end) ==
    IF start > end + 1 \/ end + 1 > Len(st.heap)
    THEN Outcome(st, "Panic", <<>>)
    ELSE Outcome(st, "Ok", SubSeq(st.heap, start + 1, end + 1))

\* the lookup of range_borrow and range_borrow_mut: the first record of the
\* ledger that contains the range
found_range(ledger, start, end) ==
    find({i \in 1 .. Len(ledger) : ledger[i].start <= start /\ ledger[i].end >= end})

\* Allocator::range_borrow
range_borrow(st, p, start, end) ==
    IF p \notin DOMAIN st.allocated
    THEN {Outcome(st, "NoSuchProcess", <<>>)}
    ELSE IF found_range(st.allocated[p], start, end) # 0
    THEN {heap_slice(st, start, end)}
    ELSE {Outcome(st, "NotOwned", <<>>)}

\* Allocator::range_borrow_mut
range_borrow_mut(st, p, start, end) ==
    IF p \notin DOMAIN st.allocated
    THEN {Outcome(st, "NoSuchProcess", <<>>)}
    ELSE IF found_range(st.allocated[p], start, end) # 0
    THEN {heap_slice(st, start, end)}
    ELSE {Outcome(st, "NotOwned", <<>>)}

\* the lookup of share: the first record of the source whose start is <= start_idx
share_lookup(ledger, start_idx) ==
    find({i \in 1 .. Len(ledger) : ledger[i].start <= start_idx})

\* share that gives the target a copy of the record with a counter of its own
\* instead of a clone of the source's Arc
share_copies(st, source_process, target_process, start_idx) ==
    IF source_process \notin DOMAIN st.allocated
    THEN {Outcome(st, "NoSuchProcess", <<>>)}
    ELSE LET i == share_lookup(st.allocated[source_process], start_idx)
         IN  IF i = 0
             THEN {Outcome(st, "NotOwned", <<>>)}
             ELSE IF target_process \notin DOMAIN st.allocated
             THEN {Outcome(st, "NoSuchProcess", <<>>)}
             ELSE LET memrange == st.allocated[source_process][i]
                  IN  {Outcome(push_new_block(st, target_process, memrange.start, memrange.end),
                               "Ok", <<>>)}

\* share with the fetch_add on the record's counter made right after the
\* lookup, before the target's registration is checked
share_counts_first(st, source_process, target_process, start_idx) ==
    IF source_process \notin DOMAIN st.allocated
    THEN {Outcome(st, "NoSuchProcess", <<>>)}
    ELSE LET i == share_lookup(st.allocated[source_process], start_idx)
         IN  IF i = 0
             THEN {Outcome(st, "NotOwned", <<>>)}
             ELSE LET memrange == st.allocated[source_process][i]
                      counted == [st EXCEPT !.refcount[memrange.rc] = @ + 1]
                  IN  IF target_process \notin DOMAIN st.allocated
                      THEN {Outcome(counted, "NoSuchProcess", <<>>)}
                      ELSE {Outcome([counted EXCEPT !.allocated[target_process] =
                                                        Append(@, memrange)],
                                    "Ok", <<>>)}

\* Allocator::share
share(st, source_process, target_process, start_idx) ==
    IF source_process \notin DOMAIN st.allocated
    THEN {Outcome(st, "NoSuchProcess", <<>>)}
    ELSE LET i == share_lookup(st.allocated[source_process], start_idx)
         IN  IF i = 0
             THEN {Outcome(st, "NotOwned", <<>>)}
             ELSE IF target_process \notin DOMAIN st.allocated
             THEN {Outcome(st, "NoSuchProcess", <<>>)}
             ELSE LET memrange == st.allocated[source_process][i]
                  IN  {Outcome([st EXCEPT !.refcount[memrange.rc] = @ + 1,
                                          !.allocated[target_process] = Append(@, memrange)],
                               "Ok", <<>>)}

\* clean_process that removes the process's ledger without freeing its records
clean_forgets(st, p, vec) ==
    LET led == [q \in DOMAIN st.allocated \ {p} |-> st.allocated[q]]
    IN  {Outcome([st EXCEPT !.allocated = led, !.refcount = DropArcs(@, led)], "Ok", <<>>)}

\* the loop of clean_process over the snapshot vec: self.free(process_id, start)?
RECURSIVE clean_loop(_, _, _)
clean_loop(st, p, vec) ==
    IF vec = <<>>
    THEN {Outcome([st EXCEPT !.allocated = [q \in DOMAIN @ \ {p} |-> @[q]]], "Ok", <<>>)}
    ELSE UNION {IF o.res \in {"Free", "FreeMerge", "RefcountDecreased"}
                THEN clean_loop(o.st, p, Tail(vec))
                ELSE {Outcome(o.st, o.res, <<>>)}
                : o \in free_inner(st, p, vec[1].start, FALSE)}

\* Allocator::clean_process
clean_process(st, p) ==
    IF p \notin DOMAIN st.allocated
    THEN {Outcome(st, "NoSuchProcess", <<>>)}
    ELSE clean_loop(st, p, st.allocated[p])

(* ----------------------------- the callers ----------------------------- *)

\* a call: the method, the process, the second process (share), two numbers
Call(op, p, q, a, b) == [op |-> op, p |-> p, q |-> q, a |-> a, b |-> b]

\* the outcomes of a call on the allocator st
Do(st, c) ==
    CASE c.op = "register_process" -> register_process(st, c.p)
      [] c.op = "alloc" -> alloc(st, c.p, c.a)
      [] c.op = "free" -> free_inner(st, c.p, c.a, FALSE)
      [] c.op = "free_clear" -> free_inner(st, c.p, c.a, TRUE)
      [] c.op = "range_borrow" -> range_borrow(st, c.p, c.a, c.b)
      [] c.op = "range_borrow_mut" -> range_borrow_mut(st, c.p, c.a, c.b)
      [] c.op = "share" -> share(st, c.p, c.q, c.a)
      [] c.op = "clean_process" -> clean_process(st, c.p)

\* the caller of range_borrow_mut writes through the slice it got: the
\* scripted callers set every byte of it to 1
written(o, c) ==
    IF c.op = "range_borrow_mut" /\ o.res = "Ok"
    THEN [k \in 1 .. Len(o.st.heap) |-> IF c.a + 1 <= k /\ k <= c.b + 1 THEN 1 ELSE o.st.heap[k]]
    ELSE o.st.heap

\* the number of MemRanges in all ledgers
Blocks(st) ==
    Cardinality({pi \in (DOMAIN st.allocated) \X (1 .. (MaxHeap + 1)) :
                    pi[2] <= Len(st.allocated[pi[1]])})

\* how far the free-running callers follow the allocator
Bounded(st) ==
    /\ Len(st.heap) <= MaxHeap
    /\ Len(st.free) <= MaxHeap
    /\ Blocks(st) <= MaxHeap
    /\ \A p \in DOMAIN st.allocated : \A i \in 1 .. Len(st.allocated[p]) :
          st.allocated[p][i].end < MaxHeap

\* the call c returned with outcome o
Returned(o, c) ==
    /\ heap' = written(o, c)
    /\ allocated' = o.st.allocated
    /\ refcount' = o.st.refcount
    /\ free' = o.st.free
    /\ ret' = [call |-> c, res |-> o.res, val |-> o.val]

\* a panic ends the program
Alive == ret.res # "Panic"

\* the free-running callers: any call with any arguments from the bounded sets
Running == Alive /\ script = <<>>

\* a free-running caller makes the call c
Calls(c) ==
    /\ Running
    /\ \E o \in Do(State, c) : Bounded(o.st) /\ Returned(o, c)
    /\ UNCHANGED <<script, pc>>

\* a free-running caller makes the call c and only looks at what it returns:
\* ret keeps the last call that could change the allocator, unless c panics
Queries(c) ==
    /\ Running
    /\ \E o \in Do(State, c) :
          IF o.res = "Panic"
          THEN Returned(o, c) /\ UNCHANGED <<script, pc>>
          ELSE UNCHANGED vars

Init ==
    /\ heap = new.heap
    /\ allocated = new.allocated
    /\ refcount = new.refcount
    /\ free = new.free
    /\ ret = [call |-> Call("new", 0, 0, 0, 0), res |-> "Ok", val |-> <<>>]
    /\ script = <<>>
    /\ pc = 0

RegisterProcess == \E p \in Procs : Calls(Call("register_process", p, 0, 0, 0))

Alloc == \E p \in Procs, size \in Sizes : Calls(Call("alloc", p, 0, size, 0))

Free == \E p \in Procs, start \in Addrs : Calls(Call("free", p, 0, start, 0))

FreeClear == \E p \in Procs, start \in Addrs : Calls(Call("free_clear", p, 0, start, 0))

\* the callers pass byte ranges [start, end] with start <= end
RangeBorrow ==
    \E p \in Procs, start \in Addrs, end \in Addrs :
        start <= end /\ Queries(Call("range_borrow", p, 0, start, end))

RangeBorrowMut ==
    \E p \in Procs, start \in Addrs, end \in Addrs :
        start <= end /\ Queries(Call("range_borrow_mut", p, 0, start, end))

Share == \E p \in Procs, q \in Procs, start \in Addrs : Calls(Call("share", p, q, start, 0))

CleanProcess == \E p \in Procs : Calls(Call("clean_process", p, 0, 0, 0))

Next ==
    \/ RegisterProcess
    \/ Alloc
    \/ Free
    \/ FreeClear
    \/ RangeBorrow
    \/ RangeBorrowMut
    \/ Share
    \/ CleanProcess

Spec == Init /\ [][Next]_vars

(* ------------------------- the scripted callers ------------------------ *)
(* A scripted caller makes the calls of one script, in order, on a new     *)
(* allocator.  The scripts come in families, each over bounded parameters. *)

\* the scripted caller makes its next call
Step ==
    /\ Alive
    /\ script # <<>>
    /\ pc < Len(script)
    /\ \E o \in Do(State, script[pc + 1]) : Returned(o, script[pc + 1])
    /\ pc' = pc + 1
    /\ script' = script

\* the scripted caller has made every call of its script
Done == script # <<>> /\ pc = Len(script)

InitScript(scripts) ==
    /\ heap = new.heap
    /\ allocated = new.allocated
    /\ refcount = new.refcount
    /\ free = new.free
    /\ ret = [call |-> Call("new", 0, 0, 0, 0), res |-> "Ok", val |-> <<>>]
    /\ script \in scripts
    /\ pc = 0

\* the orderings of the elements of the set S, as sequences
Orders(S) ==
    {f \in [1 .. Cardinality(S) -> S] : \A i, j \in 1 .. Cardinality(S) : f[i] = f[j] => i = j}

RECURSIVE SeqSum(_)
SeqSum(s) == IF s = <<>> THEN 0 ELSE s[1] + SeqSum(Tail(s))

\* register_process for the processes 0 .. n
Registers(n) == [i \in 1 .. (n + 1) |-> Call("register_process", i - 1, 0, 0, 0)]

\* Three blocks of n bytes each, block i allocated by own[i], then freed by
\* their owners in the order given (kind: "free" or "free_clear").
CoalesceScript(n, own, order, kind) ==
    Registers(MaxProc - 1)
    \o [i \in 1 .. 3 |-> Call("alloc", own[i], 0, n, 0)]
    \o [j \in 1 .. 3 |-> Call(kind, own[order[j]], 0, (order[j] - 1) * n, 0)]

CoalesceScripts ==
    {CoalesceScript(n, own, order, kind) :
        n \in 1 .. MaxUnit, own \in [1 .. 3 -> Procs], order \in Orders(1 .. 3),
        kind \in {"free", "free_clear"}}

InitCoalesce == InitScript(CoalesceScripts)

SpecCoalesce == InitCoalesce /\ [][Step]_vars

\* Blocks of 2k, 1, k, 1 and 4k bytes are allocated by process 0; the blocks of
\* 2k, k and 4k bytes are freed in the order given, which leaves a free list
\* of capacities [2k, k, 4k]; then alloc(size).
FitScript(k, order, size) ==
    LET starts == <<0, 2 * k + 1, 3 * k + 2>>
    IN  Registers(0)
        \o <<Call("alloc", 0, 0, 2 * k, 0), Call("alloc", 0, 0, 1, 0),
             Call("alloc", 0, 0, k, 0), Call("alloc", 0, 0, 1, 0),
             Call("alloc", 0, 0, 4 * k, 0)>>
        \o [j \in 1 .. 3 |-> Call("free", 0, 0, starts[order[j]], 0)]
        \o <<Call("alloc", 0, 0, size, 0)>>

FitScripts ==
    {FitScript(k, order, size) :
        k \in 1 .. MaxUnit, order \in Orders(1 .. 3), size \in 1 .. (4 * MaxUnit + 1)}

InitFit == InitScript(FitScripts)

SpecFit == InitFit /\ [][Step]_vars

\* Process 0 allocates blocks of the sizes in prior and then a block R of n
\* bytes; it shares R's start offset with the processes 1 .. shares; then
\* process 0 and the sharers free that start offset, in the order given.
ProtoScript(prior, n, shares, order) ==
    LET start == SeqSum(prior)
    IN  Registers(MaxProc)
        \o [i \in 1 .. Len(prior) |-> Call("alloc", 0, 0, prior[i], 0)]
        \o <<Call("alloc", 0, 0, n, 0)>>
        \o [t \in 1 .. shares |-> Call("share", 0, t, start, 0)]
        \o [j \in 1 .. (shares + 1) |-> Call("free", order[j], 0, start, 0)]

Priors == {<<>>} \cup [1 .. 1 -> Sizes] \cup [1 .. 2 -> Sizes]

ProtoScripts ==
    UNION {{ProtoScript(prior, n, shares, order) :
                prior \in Priors, n \in Sizes, order \in Orders(0 .. shares)} :
           shares \in 0 .. MaxProc}

InitProto == InitScript(ProtoScripts)

SpecProto == InitProto /\ [][Step]_vars

\* Blocks of one byte each, block i (at offset i - 1) allocated by own[i];
\* the owners of the second and the third block free them; then the calls of
\* tail.
ReuseScript(own, tail) ==
    Registers(MaxProc - 1)
    \o [i \in 1 .. Len(own) |-> Call("alloc", own[i], 0, 1, 0)]
    \o <<Call("free", own[2], 0, 1, 0), Call("free", own[3], 0, 2, 0)>>
    \o tail

\* the calls of a tail: an alloc of 1 or 3 bytes, a free of the first, fourth
\* or fifth block by its owner, a clean_process
ReuseCalls(own) ==
    {Call("alloc", p, 0, n, 0) : p \in Procs, n \in {1, 3}}
    \cup {Call("free", own[i], 0, i - 1, 0) : i \in {1, 4, 5} \cap (1 .. Len(own))}
    \cup {Call("clean_process", p, 0, 0, 0) : p \in Procs}

\* the scripts with m blocks
ReuseScripts(m) ==
    UNION {{ReuseScript(own, tail) :
               tail \in {<<>>} \cup [1 .. 1 -> ReuseCalls(own)]
                               \cup [1 .. 2 -> ReuseCalls(own)]} :
           own \in [1 .. m -> Procs]}

InitReuse == InitScript(UNION {ReuseScripts(m) : m \in 3 .. MaxBlocks})

SpecReuse == InitReuse /\ [][Step]_vars

\* the calls of a prefix: an alloc of 1 .. MaxSize bytes, a free of one of the
\* first offsets
ZeroCalls ==
    {Call("alloc", p, 0, n, 0) : p \in Procs, n \in Sizes}
    \cup {Call("free", p, 0, a, 0) : p \in Procs, a \in 0 .. MaxSize}

\* After the calls of prefix (which leave the arena and the free list empty
\* or not), process p calls alloc with size 0.
ZeroScript(prefix, p) ==
    Registers(MaxProc - 1) \o prefix \o <<Call("alloc", p, 0, 0, 0)>>

ZeroScripts ==
    {ZeroScript(prefix, p) :
        prefix \in {<<>>} \cup [1 .. 1 -> ZeroCalls] \cup [1 .. 2 -> ZeroCalls],
        p \in Procs}

InitZero == InitScript(ZeroScripts)

SpecZero == InitZero /\ [][Step]_vars

\* Process 0 allocates RunBlocks blocks of one byte each (block i at offset
\* i - 1) and frees the blocks at the offsets of frees, in that order.
OrderScript(frees) ==
    Registers(0)
    \o [i \in 1 .. RunBlocks |-> Call("alloc", 0, 0, 1, 0)]
    \o [j \in 1 .. Len(frees) |-> Call("free", 0, 0, frees[j], 0)]

\* the sequences of k different offsets of the blocks
FreeOrders(k) ==
    {f \in [1 .. k -> 0 .. (RunBlocks - 1)] : \A i, j \in 1 .. k : f[i] = f[j] => i = j}

\* the scripts that free k blocks
OrderScripts(k) == {OrderScript(frees) : frees \in FreeOrders(k)}

InitOrder == InitScript(UNION {OrderScripts(k) : k \in 0 .. MaxFrees})

SpecOrder == InitOrder /\ [][Step]_vars

\* Process 0 allocates three blocks of n bytes each and writes 1 to every byte
\* of them through range_borrow_mut; when shared = 1 it shares the start
\* offset of block j with process 1; it frees the three blocks in the order
\* given, block order[i] with free or free_clear as kinds[i] says; process 1
\* frees the start offset of block j with last; then process 1 allocates size
\* bytes.
ClearScript(n, j, shared, order, kinds, last, size) ==
    Registers(MaxProc - 1)
    \o [i \in 1 .. 3 |-> Call("alloc", 0, 0, n, 0)]
    \o [i \in 1 .. 3 |-> Call("range_borrow_mut", 0, 0, (i - 1) * n, i * n - 1)]
    \o [i \in 1 .. shared |-> Call("share", 0, 1, (j - 1) * n, 0)]
    \o [i \in 1 .. 3 |-> Call(kinds[i], 0, 0, (order[i] - 1) * n, 0)]
    \o <<Call(last, 1, 0, (j - 1) * n, 0), Call("alloc", 1, 0, size, 0)>>

\* the scripts with blocks of n bytes
ClearScripts(n) ==
    {ClearScript(n, j, shared, order, kinds, last, size) :
        j \in 1 .. 3, shared \in 0 .. 1, order \in Orders(1 .. 3),
        kinds \in [1 .. 3 -> {"free", "free_clear"}], last \in {"free", "free_clear"},
        size \in Sizes}

InitClear == InitScript(UNION {ClearScripts(n) : n \in Sizes})

SpecClear == InitClear /\ [][Step]_vars

(* ------------------------------ the claims ----------------------------- *)

\* the closed ranges [start, end] of the blocks in the ledgers
LedgerRanges ==
    UNION {{<<allocated[p][i].start, allocated[p][i].end>> : i \in 1 .. Len(allocated[p])} :
           p \in DOMAIN allocated}

\* C10: three blocks of n bytes allocated on a new allocator get the ranges
\* [0, n-1], [n, 2n-1], [2n, 3n-1] (for n = 4: 0..3, 4..7, 8..11), and once
\* they are freed in the order first, third, second the free list is exactly
\* one entry of capacity 3n with the range [0, 3n-1] (for n = 4: 12, 0..11).
C10_ThreeBlockCoalescing ==
    \A n \in 1 .. MaxUnit, own \in [1 .. 3 -> Procs], kind \in {"free", "free_clear"} :
        script = CoalesceScript(n, own, <<1, 3, 2>>, kind) =>
            /\ pc = MaxProc + 3 =>
                  LedgerRanges = {<<0, n - 1>>, <<n, 2 * n - 1>>, <<2 * n, 3 * n - 1>>}
            /\ Done => free = <<FreeEntry(3 * n, 0, 3 * n - 1)>>

C10_Witness ==
    /\ Done
    /\ script = CoalesceScript(4, <<0, 0, 0>>, <<1, 3, 2>>, "free")
    /\ ret.res = "FreeMerge"
    /\ free = <<FreeEntry(12, 0, 11)>>

\* the MemRanges in the ledgers
Entries ==
    UNION {{allocated[p][i] : i \in 1 .. Len(allocated[p])} : p \in DOMAIN allocated}

\* the free-list entries
FreeEntries == {free[i] : i \in 1 .. Len(free)}

\* the byte offsets of the closed range [start, end]
Bytes(r) == r.start .. r.end

\* the sum of the lengths end - start + 1 of the records <<rc, start, end>> in S
RECURSIVE LengthSum(_)
LengthSum(S) ==
    IF S = {} THEN 0
    ELSE LET r == CHOOSE y \in S : TRUE IN (r[3] - r[2] + 1) + LengthSum(S \ {r})

\* C1: no byte offset is covered by two ledger ranges of different refcount
\* records, and none by a ledger range and a free-list range.
C1_NoOverlap ==
    Alive =>
        /\ \A a \in Entries, b \in Entries : a.rc # b.rc => Bytes(a) \cap Bytes(b) = {}
        /\ \A a \in Entries, f \in FreeEntries : Bytes(a) \cap Bytes(f) = {}

\* C2: the arena length is the sum of the lengths of the distinct live records
\* (a shared record counted once) plus the sum of the free-list capacities.
C2_Conservation ==
    Alive =>
        Len(heap) =
            LengthSum({<<e.rc, e.start, e.end>> : e \in Entries})
            + SeqSum([i \in 1 .. Len(free) |-> free[i].cap])

\* C3: after any free or free_clear call has returned, whatever its outcome,
\* no two free-list entries are adjacent (a.end + 1 = b.start).
C3_EagerCoalescing ==
    (Alive /\ ret.call.op \in {"free", "free_clear"}) =>
        \A i, j \in 1 .. Len(free) : i # j => free[i].end + 1 # free[j].start

\* the number of calls of the method op among the first k calls of the script sc
RECURSIVE CountOp(_, _, _)
CountOp(sc, op, k) ==
    IF k = 0 THEN 0 ELSE (IF sc[k].op = op THEN 1 ELSE 0) + CountOp(sc, op, k - 1)

\* C4: a record allocated by a process that may hold other records, shared N
\* times by share calls that name its start offset (all of them return Ok),
\* then freed N + 1 times at that start offset by the owner and the sharers in
\* any order: each of the first N frees returns RefcountDecreased and leaves
\* the arena and the free list unchanged, and the (N+1)-th returns Free or
\* FreeMerge.  (Stated of the scripts of SpecProto.)
C4_RefcountProtocol ==
    [][(pc' = pc + 1 /\ script[pc'].op = "free") =>
          LET shares == CountOp(script, "share", Len(script))
              k == CountOp(script, "free", pc')
          IN  /\ k <= shares =>
                    (ret'.res = "RefcountDecreased" /\ heap' = heap /\ free' = free)
              /\ k = shares + 1 => ret'.res \in {"Free", "FreeMerge"}]_vars

\* every share call of the scripts of SpecProto is successful
C4_SharesSucceed == ret.call.op = "share" => ret.res = "Ok"

\* the largest of a non-empty set of numbers
Max(S) == CHOOSE x \in S : \A y \in S : y <= x

\* the offsets a range passed to range_borrow is drawn from: those of the
\* arena and of every block in a ledger, and one more
Offsets == 0 .. Max({Len(heap)} \cup {e.end + 1 : e \in Entries})

\* the MemRanges in the ledger of process p
Held(p) == {allocated[p][i] : i \in 1 .. Len(allocated[p])}

\* process p can successfully borrow a range that contains the offset x
CanBorrow(p, x) ==
    \E s \in Offsets, e \in Offsets :
        /\ s <= x /\ x <= e
        /\ \E o \in range_borrow(State, p, s, e) \cup range_borrow_mut(State, p, s, e) :
              o.res = "Ok"

\* process p can successfully free the start offset a
CanFree(p, a) ==
    \E o \in free_inner(State, p, a, FALSE) \cup free_inner(State, p, a, TRUE) :
        o.res \in {"Free", "FreeMerge", "RefcountDecreased"}

\* C5: if two different processes can both successfully borrow a range that
\* contains the same byte offset, or one can successfully free a start offset
\* that lies in a range the other holds, then both hold a ledger entry of the
\* same shared record (one counter, counting both entries) that gives them this
\* access.
C5_Isolation ==
    Alive =>
        \A p \in DOMAIN allocated, q \in DOMAIN allocated : p # q =>
            /\ \A x \in Offsets :
                  (CanBorrow(p, x) /\ CanBorrow(q, x)) =>
                      \E e \in Held(p), f \in Held(q) :
                          e.rc = f.rc /\ refcount[e.rc] >= 2 /\ x \in Bytes(e)
            /\ \A a \in Offsets :
                  (CanFree(p, a) /\ \E f \in Held(q) : a \in Bytes(f)) =>
                      \E e \in Held(p), f \in Held(q) :
                          e.rc = f.rc /\ refcount[e.rc] >= 2 /\ e.start = a

\* C6: range_borrow and range_borrow_mut of a registered process succeed if
\* and only if one record of its ledger contains the range (record.start <=
\* range.start and record.end >= range.end), and fail with NotOwned otherwise;
\* so with two adjacent blocks a borrow of the range spanning both fails.
C6_BorrowBoundary ==
    Alive =>
        \A p \in DOMAIN allocated : \A s \in Offsets, e \in Offsets : s <= e =>
            LET has == \E r \in Held(p) : r.start <= s /\ r.end >= e
            IN  \A o \in range_borrow(State, p, s, e) \cup range_borrow_mut(State, p, s, e) :
                    /\ o.res = "Ok" <=> has
                    /\ ~has => o.res = "NotOwned"

\* the allocator after the step
StateNext ==
    [heap |-> heap', allocated |-> allocated', refcount |-> refcount', free |-> free']

\* C7: after a successful free(p, start) or free_clear(p, start) (Free,
\* FreeMerge or RefcountDecreased) process p can borrow no range inside the
\* released record (NotOwned) and a second free(p, start) returns
\* BlockNotFound.
C7_FreeRevokes ==
    [][(allocated' # allocated
         /\ ret'.call.op \in {"free", "free_clear"}
         /\ ret'.res \in {"Free", "FreeMerge", "RefcountDecreased"}) =>
          LET p == ret'.call.p
              a == ret'.call.a
              i == find({k \in 1 .. Len(allocated[p]) : allocated[p][k].start = a})
              released == allocated[p][i]
          IN  /\ \A s \in Bytes(released), e \in Bytes(released) : s <= e =>
                    \A o \in range_borrow(StateNext, p, s, e) : o.res = "NotOwned"
              /\ \A o \in free_inner(StateNext, p, a, FALSE) : o.res = "BlockNotFound"]_vars

\* C8: after clean_process(p) has returned Ok, p is no ledger key (calls that
\* name p return NoSuchProcess, register_process(p) succeeds), every byte of
\* every record only p held is covered by a free-list entry, and every record
\* another process holds is still in that process's ledger, its refcount
\* reduced by the number of entries p held, and none of its bytes is in the
\* free list.
C8_Teardown ==
    [][(allocated' # allocated /\ ret'.call.op = "clean_process" /\ ret'.res = "Ok") =>
          LET p == ret'.call.p
              others == UNION {Held(q) : q \in DOMAIN allocated \ {p}}
              mine(rc) == Cardinality({k \in 1 .. Len(allocated[p]) : allocated[p][k].rc = rc})
          IN  /\ p \notin DOMAIN allocated'
              /\ \A o \in alloc(StateNext, p, 1) \cup free_inner(StateNext, p, 0, FALSE)
                          \cup range_borrow(StateNext, p, 0, 0) \cup share(StateNext, p, p, 0)
                          \cup clean_process(StateNext, p) : o.res = "NoSuchProcess"
              /\ \A o \in register_process(StateNext, p) : o.res = "Ok"
              /\ \A e \in Held(p) : (\A f \in others : f.rc # e.rc) =>
                    \A x \in Bytes(e) : \E i \in 1 .. Len(free') : x \in Bytes(free'[i])
              /\ \A q \in DOMAIN allocated \ {p} :
                    /\ q \in DOMAIN allocated' /\ allocated'[q] = allocated[q]
                    /\ \A f \in Held(q) :
                          /\ refcount'[f.rc] = refcount[f.rc] - mine(f.rc)
                          /\ \A x \in Bytes(f) : \A i \in 1 .. Len(free') : x \notin Bytes(free'[i])]_vars

\* the number of positions of the sequence s that hold x
Copies(s, x) == Cardinality({i \in 1 .. Len(s) : s[i] = x})

\* the capacities of the free list, in list order
FreeCaps == [i \in 1 .. Len(free) |-> free[i].cap]

\* the step is a successful alloc(p, size)
AllocReturned ==
    allocated' # allocated /\ ret'.call.op = "alloc" /\ ret'.res = "Ok"

\* alloc places the block first-fit: in the first free entry, in list order,
\* of capacity >= size, which is removed and replaced by one entry for the rest
\* of its range when its capacity exceeds size; at the old end of the arena,
\* which grows by size bytes, when no entry fits
FirstFitStep ==
    LET p == ret'.call.p
        size == ret'.call.a
        fits == {i \in 1 .. Len(free) : free[i].cap >= size}
        first == CHOOSE i \in fits : \A j \in fits : i <= j
        e == free[first]
        rest == FreeEntry(e.cap - size, e.start + size, e.end)
        s == IF fits # {} THEN e.start ELSE Len(heap)
    IN  /\ ret'.val = <<s, s + size - 1>>
        /\ \E k \in 1 .. Len(allocated'[p]) :
              LET r == allocated'[p][k]
              IN  r.start = s /\ r.end = s + size - 1 /\ refcount'[r.rc] = 1
        /\ fits # {} =>
              /\ heap' = heap
              /\ Len(free') = Len(free) - (IF e.cap > size THEN 0 ELSE 1)
              /\ \A x \in FreeEntries \cup FreeEntries' \cup {rest} :
                    Copies(free', x) =
                        Copies(free, x) - (IF x = e THEN 1 ELSE 0)
                        + (IF x = rest /\ e.cap > size THEN 1 ELSE 0)
        /\ fits = {} =>
              /\ Len(heap') = Len(heap) + size
              /\ SubSeq(heap', 1, Len(heap)) = heap
              /\ free' = free

\* alloc of size >= 1 of a registered process returns a range
AllocSucceeds ==
    \A p \in DOMAIN allocated, size \in 1 .. (4 * MaxUnit + 1) :
        \A o \in alloc(State, p, size) : o.res = "Ok" /\ Len(o.val) = 2

\* with a free list of capacities [8, 4, 16], alloc of 4 bytes takes the
\* entry of capacity 8 (at offset 0) and leaves the capacities {4, 4, 16}
FirstFitExample ==
    \A order \in Orders(1 .. 3) : script = FitScript(4, order, 4) =>
        /\ pc = Len(script) - 1 => FreeCaps = <<8, 4, 16>>
        /\ Done =>
              /\ ret.val = <<0, 3>>
              /\ Len(free) = 3
              /\ Copies(FreeCaps, 4) = 2 /\ Copies(FreeCaps, 16) = 1
              /\ FreeEntry(4, 4, 7) \in FreeEntries

\* C9: alloc(p, size) with size >= 1 of a registered process returns
\* [s, s + size - 1] with s the start of the first free-list entry, in list
\* order, whose capacity is >= size; that entry is removed and, when its
\* capacity exceeds size, one entry of the leftover capacity for the rest of
\* its range is added; when no entry fits the arena grows by exactly size
\* bytes and s is the old arena length.  With free capacities [8, 4, 16],
\* alloc of 4 bytes takes the entry of capacity 8 and leaves {4, 4, 16}.
C9_FirstFit ==
    /\ [](MaxUnit >= 4 => FirstFitExample)
    /\ [](Alive => AllocSucceeds)
    /\ [][AllocReturned => FirstFitStep]_vars

C9_Witness ==
    /\ Done
    /\ script = FitScript(4, <<1, 2, 3>>, 4)
    /\ ret.call = Call("alloc", 0, 0, 4, 0)
    /\ ret.res = "Ok"
    /\ ret.val = <<0, 3>>
    /\ Copies(FreeCaps, 4) = 2 /\ Copies(FreeCaps, 16) = 1

\* The original statement of C11: in the scenario of three contiguous blocks
\* of 4 bytes freed in the order first, third, second, the second-to-last
\* free (that of the third block) returns FreeMerge.
C11_SecondToLastMerges ==
    \A own \in [1 .. 3 -> Procs], kind \in {"free", "free_clear"} :
        (script = CoalesceScript(4, own, <<1, 3, 2>>, kind) /\ pc = Len(script) - 1) =>
            ret.res = "FreeMerge"

\* C11 (amended): in the scenario of three contiguous blocks of n bytes (n = 4:
\* 0..3, 4..7, 8..11) freed in the order first, third, second, the
\* second-to-last free returns Free(n), the third block being adjacent to no
\* free entry, and the last free returns the merge outcome FreeMerge with the
\* total capacity 3n (12 for n = 4).
C11_LastFreeMerges ==
    \A n \in 1 .. MaxUnit, own \in [1 .. 3 -> Procs], kind \in {"free", "free_clear"} :
        script = CoalesceScript(n, own, <<1, 3, 2>>, kind) =>
            /\ pc = Len(script) - 2 => (ret.res = "Free" /\ ret.val = <<n>>)
            /\ pc = Len(script) - 1 => (ret.res = "Free" /\ ret.val = <<n>>)
            /\ Done => (ret.res = "FreeMerge" /\ ret.val = <<3 * n>>)

C11_Witness ==
    /\ Done
    /\ script = CoalesceScript(4, <<0, 1, 0>>, <<1, 3, 2>>, "free_clear")
    /\ ret.call = Call("free_clear", 1, 0, 4, 0)
    /\ ret.val = <<12>>

\* AllocError: the errors a call returns
ErrorResults == {"AlreadyRegistered", "NoSuchProcess", "NotOwned", "BlockNotFound"}

\* the step is the call alloc(p, 0) of a registered process p
AllocZero ==
    /\ pc' = pc + 1
    /\ script[pc'].op = "alloc" /\ script[pc'].a = 0
    /\ script[pc'].p \in DOMAIN allocated

\* C12: alloc(p, 0) of a registered process returns an error, whatever the
\* arena and the free list hold, and leaves the arena, the ledgers and the
\* free list as they were; no ledger ever holds a range with end < start (or
\* an end that underflowed).
C12_ZeroSizeRejected ==
    /\ [](\A e \in Entries : e.start <= e.end)
    /\ [][AllocZero =>
            /\ ret'.res \in ErrorResults
            /\ UNCHANGED <<heap, allocated, refcount, free>>]_vars

\* C13: share(source, target, start) returns NoSuchProcess whenever the source
\* or the target is not registered, whatever start is and whatever the
\* source's ledger holds.  (share registers and unregisters no process, so the
\* ledger keys after the call are those before it.)
C13_ShareNoSuchProcess ==
    (ret.call.op = "share"
        /\ (ret.call.p \notin DOMAIN allocated \/ ret.call.q \notin DOMAIN allocated)) =>
            ret.res = "NoSuchProcess"

\* a borrow that returns an error leaves the allocator as it was
BorrowErrorsKeep ==
    \A p \in Procs, s \in Addrs, e \in Addrs : s <= e =>
        \A o \in range_borrow(State, p, s, e) \cup range_borrow_mut(State, p, s, e) :
            o.res \in ErrorResults => o.st = State

\* C14: whenever register_process, alloc, free, free_clear, range_borrow,
\* share or clean_process returns an error (AlreadyRegistered, NoSuchProcess,
\* NotOwned, BlockNotFound), the arena (contents and length), every ledger,
\* every refcount and the free list are as they were before the call.
C14_NoPartialMutation ==
    /\ [](Alive => BorrowErrorsKeep)
    /\ [][ret'.res \in ErrorResults => UNCHANGED <<heap, allocated, refcount, free>>]_vars

C14_Witness ==
    /\ ret.call.op = "share"
    /\ ret.res = "NoSuchProcess"
    /\ ret.call.p \in DOMAIN allocated
    /\ \E i \in 1 .. Len(allocated[ret.call.p]) : allocated[ret.call.p][i].start <= ret.call.a
    /\ free # <<>>

\* the step is a successful share(source, target, start)
ShareReturned ==
    allocated' # allocated /\ ret'.call.op = "share" /\ ret'.res = "Ok"

\* C15: a successful share(source, target, start) appends exactly one entry to
\* the target's ledger, with the range and the counter of an entry of the
\* source's ledger; that counter goes up by exactly 1 (no other counter
\* changes); the entries the source had, the ledgers of all other processes,
\* the arena and the free list are unchanged.
C15_ShareEffect ==
    [][ShareReturned =>
          LET source == ret'.call.p
              target == ret'.call.q
          IN  /\ \E m \in Held(source) :
                    /\ allocated'[target] = Append(allocated[target], m)
                    /\ refcount' = [refcount EXCEPT ![m.rc] = @ + 1]
              /\ DOMAIN allocated' = DOMAIN allocated
              /\ \A q \in DOMAIN allocated \ {target} : allocated'[q] = allocated[q]
              /\ SubSeq(allocated'[source], 1, Len(allocated[source])) = allocated[source]
              /\ heap' = heap
              /\ free' = free]_vars

C15_Witness ==
    /\ ret.call.op = "share" /\ ret.res = "Ok"
    /\ ret.call.p # ret.call.q
    /\ \E m \in Held(ret.call.p) :
          /\ allocated[ret.call.q][Len(allocated[ret.call.q])] = m
          /\ refcount[m.rc] = 2
    /\ free # <<>>

\* C16: a successful share(source, target, start) gives the target a record of
\* the source that contains start (record.start <= start <= record.end),
\* whatever records the source holds and in whatever order; never a record
\* that does not contain start.
C16_ShareLookup ==
    [][ShareReturned =>
          LET source == ret'.call.p
              target == ret'.call.q
              start == ret'.call.a
              given == allocated'[target][Len(allocated'[target])]
          IN  /\ given \in Held(source)
              /\ given.start <= start /\ start <= given.end]_vars

\* the step is a free or free_clear that brought the refcount to 0
FreeReturned ==
    /\ allocated' # allocated
    /\ ret'.call.op \in {"free", "free_clear"}
    /\ ret'.res \in {"Free", "FreeMerge"}

\* the block the step's free(p, start) releases: the first of p's ledger with
\* that start
Released ==
    LET p == ret'.call.p
    IN  allocated[p][find({k \in 1 .. Len(allocated[p]) : allocated[p][k].start = ret'.call.a})]

\* the free-list entries (by index) whose range is adjacent to the block b
AdjacentTo(b) ==
    {i \in 1 .. Len(free) : free[i].end + 1 = b.start \/ b.end + 1 = free[i].start}

\* C17: a free or free_clear that brings the refcount to 0 returns Free(n), n
\* the length of the released block, exactly when the block is adjacent to no
\* free-list entry; otherwise it returns FreeMerge(c), c the total capacity
\* merged: the length end - start + 1 of the merged range (the block and the
\* entries adjacent to it), wherever in the arena the run starts.
C17_FreeOutcome ==
    [][FreeReturned =>
          LET b == Released
              adj == AdjacentTo(b)
              n == b.end - b.start + 1
              c == n + SeqSum([i \in 1 .. Len(free) |->
                                  IF i \in adj THEN free[i].end - free[i].start + 1 ELSE 0])
          IN  /\ adj = {} => (ret'.res = "Free" /\ ret'.val = <<n>>)
              /\ adj # {} => (ret'.res = "FreeMerge" /\ ret'.val = <<c>>)]_vars

\* C18: every free-list entry (capacity, range) has range.start <= range.end
\* and capacity = range.end - range.start + 1, the entries a merge makes and
\* the remainder entries alloc makes included.
C18_FreeEntryShape ==
    Alive =>
        \A i \in 1 .. Len(free) :
            /\ free[i].start <= free[i].end
            /\ free[i].cap = free[i].end - free[i].start + 1

\* C19: right after a free or free_clear call that ran a coalescing pass
\* (outcome Free or FreeMerge) the free list is sorted ascending by range
\* start.
C19_SortedAfterPass ==
    (Alive /\ ret.call.op \in {"free", "free_clear"} /\ ret.res \in {"Free", "FreeMerge"}) =>
        \A i, j \in 1 .. Len(free) : i < j => free[i].start <= free[j].start

\* entry i of the sorted free vec fl connects to the entry before it, as the
\* scan of free_inner tests it
Connects(fl, i) ==
    /\ 2 <= i /\ i <= Len(fl)
    /\ fl[i - 1].start + fl[i - 1].cap > 0
    /\ fl[i - 1].start + fl[i - 1].cap = fl[i].start

\* the runs of connecting entries the scan meets in fl, by the index of the
\* second entry of each
RunStarts(fl) == {i \in 2 .. Len(fl) : Connects(fl, i) /\ ~Connects(fl, i - 1)}

\* C20: in every free or free_clear call the coalescing pass detects at most
\* one run of adjacent entries, and the run spans at most three free-list
\* entries (the released block and its left and right neighbour), so that the
\* call removes at most three entries and inserts one.
C20_BoundedRun ==
    [][FreeReturned =>
          LET b == Released
              pushed == Append(free, FreeEntry(b.end - b.start + 1, b.start, b.end))
          IN  /\ \A fl \in sort_unstable_by_start(pushed) :
                    /\ Cardinality(RunStarts(fl)) <= 1
                    /\ Len(dedup(connecting(fl, 1))) <= 3
              /\ Len(free') >= Len(pushed) - 3 + 1]_vars

\* the step is a free or free_clear call that found the block (it returned
\* Free, FreeMerge or RefcountDecreased, or it panicked in the zeroize loop)
FreeCalled ==
    /\ allocated' # allocated \/ ret'.res = "Panic"
    /\ pc' = pc + 1
    /\ ret'.call.op \in {"free", "free_clear"}
    /\ ret'.res \in {"Free", "FreeMerge", "RefcountDecreased", "Panic"}

\* C21: a free_clear call that brings the refcount to 0 leaves every arena byte
\* of the released block's range 0 and changes no byte outside the range; a
\* free_clear that leaves the refcount above 0, and every free, changes no
\* arena byte; an alloc changes no byte the arena had, so that a block
\* released with free shows its contents to the next holder.
C21_ArenaOnRelease ==
    /\ [][FreeCalled =>
            LET b == Released
                clears == ret'.call.op = "free_clear" /\ ret'.res # "RefcountDecreased"
            IN  /\ Len(heap') = Len(heap)
                /\ clears =>
                      \A k \in 1 .. Len(heap) :
                          heap'[k] = IF b.start + 1 <= k /\ k <= b.end + 1 THEN 0 ELSE heap[k]
                /\ ~clears => heap' = heap]_vars
    /\ [][AllocReturned => SubSeq(heap', 1, Len(heap)) = heap]_vars

C21_Witness ==
    /\ ret.call.op = "free_clear" /\ ret.res = "Free"
    /\ Len(heap) = 6
    /\ \E a \in {0, 2, 4} : heap = [k \in 1 .. 6 |-> IF k \in {a + 1, a + 2} THEN 0 ELSE 1]

\* the number of ledger entries, over all processes, that point to the counter id
EntriesOf(id) ==
    Cardinality(UNION {{<<p, i>> : i \in {k \in 1 .. Len(allocated[p]) : allocated[p][k].rc = id}} :
                       p \in DOMAIN allocated})

\* C22: the refcount of every live record is the number of ledger entries,
\* over all registered processes, that reference the record; so it is >= 1 for
\* every record in a ledger and no ledger holds a record with refcount 0.
C22_RefcountIsEntries ==
    Alive =>
        /\ \A id \in DOMAIN refcount : refcount[id] = EntriesOf(id)
        /\ \A e \in Entries : e.rc \in DOMAIN refcount /\ refcount[e.rc] >= 1

C22_Witness ==
    /\ ret.call.op = "free" /\ ret.res = "RefcountDecreased"
    /\ \E p \in DOMAIN allocated, q \in DOMAIN allocated, e \in Entries :
          p # q /\ e \in Held(p) /\ e \in Held(q) /\ refcount[e.rc] = 2

\* C23: with alloc sizes >= 1, every range in a ledger, and every range alloc
\* returns, has start <= end < arena length, so that a range_borrow or
\* range_borrow_mut of a process's own whole record succeeds and never indexes
\* beyond the end of the arena.
C23_RangesInArena ==
    Alive =>
        /\ \A e \in Entries : e.start <= e.end /\ e.end < Len(heap)
        /\ (ret.call.op = "alloc" /\ ret.res = "Ok") =>
              (ret.val[1] <= ret.val[2] /\ ret.val[2] < Len(heap))
        /\ \A p \in DOMAIN allocated : \A e \in Held(p) :
              \A o \in range_borrow(State, p, e.start, e.end)
                       \cup range_borrow_mut(State, p, e.start, e.end) : o.res = "Ok"

====
